---- MODULE Spec2Model ----
(***************************************************************************)
(* A model of dagoba.js, a tiny in-memory graph database: the graph store  *)
(* (Dagoba.G), the query interpreter (Dagoba.Q.run and the pipetypes) and  *)
(* the transformer / alias registry (Dagoba.T).                            *)
(*                                                                         *)
(* JavaScript objects are modelled by handles into heaps: graph.V holds    *)
(* the vertex objects and graph.E the edge objects, a handle is the        *)
(* position of the object in its heap, and two handles are the same object *)
(* exactly when they are equal (JavaScript's ===).                         *)
(***************************************************************************)
EXTENDS Integers, Sequences, FiniteSets, TLC

VARIABLES
  graph,    \* the store built by Dagoba.graph, with the heaps of its objects
  ret,        \* history: the last call of addVertex / addEdge and its outcome
  Pipetypes,  \* Dagoba.Pipetypes, the registry of stage behaviours by name
  T,          \* Dagoba.T, the registry of transformers
  registered, \* history: the addTransformer calls that passed a function
  queries     \* the query objects, by number

(***************************************************************************)
(* Bounds of the model.                                                    *)
(***************************************************************************)
\* vertex objects a store holds (accepted addVertex calls)
MaxVertices == 3
\* edge objects a store holds (accepted addEdge calls)
MaxEdges == 2
\* steps of a program, the vertex step included
MaxSteps == 4
\* rounds of addTransformer's loop after which it is known not to end
MaxSplices == 3
\* addTransformer and addAlias calls that pass a function
MaxRegistered == 2
\* executions of one query object
MaxRuns == 3
\* rounds of the loop within which an execution of the programs run alone ends
MaxCycles == 60

Queries == {1, 2}

(***************************************************************************)
(* JavaScript values.  NoId stands for an absent (undefined, hence falsy)  *)
(* _id, NoName for an absent property.                                     *)
(***************************************************************************)
NoId == 0
NoName == "undefined"
Ids == {1, 2}
Names == {"a", "b"}
EdgeLabels == {"knows", "likes"}

(***************************************************************************)
(* A JavaScript Map: a sequence of [key, val] entries in insertion order.  *)
(* set() of a key the map holds replaces the value and keeps the position. *)
(***************************************************************************)
MapHas(m, k) == \E i \in DOMAIN m : m[i].key = k

MapGet(m, k) == m[CHOOSE i \in DOMAIN m : m[i].key = k].val

MapSet(m, k, v) ==
  IF MapHas(m, k)
    THEN [i \in DOMAIN m |-> IF m[i].key = k THEN [key |-> k, val |-> v] ELSE m[i]]
    ELSE Append(m, [key |-> k, val |-> v])

MapValues(m) == [i \in DOMAIN m |-> m[i].val]

Range(s) == {s[i] : i \in DOMAIN s}

(***************************************************************************)
(* Dagoba.graph: the empty store.                                          *)
(***************************************************************************)
EmptyGraph ==
  [vertices |-> <<>>, edges |-> <<>>, vertexIndex |-> <<>>, edgeIndex |-> <<>>,
   autoid |-> 1, V |-> <<>>, E |-> <<>>]

\* the objects a caller passes: a vertex with or without _id, an edge with raw ids
VertexInputs == [_id : Ids \cup {NoId}, name : {"a"}]

EdgeInputs == [_out : Ids, _in : Ids, _label : EdgeLabels, resolved : {FALSE}]

NoEdge == [_out |-> 0, _in |-> 0, _label |-> "", resolved |-> FALSE]

\* Dagoba.error logs the message and returns false
ErrorResult == FALSE

\* Dagoba.G.findVertexById: the vertex object (0 for undefined)
findVertexById(G, vertex_id) ==
  IF MapHas(G.vertexIndex, vertex_id) THEN MapGet(G.vertexIndex, vertex_id) ELSE 0

\* the _id taken from autoid, with no look at the vertex index
AutoId(G) == G.autoid

\* Dagoba.G.addVertex.  The result: the store after the call, whether the call
\* returned an id (ok) or Dagoba.error's false, and the id returned.
AddVertex(G, vertex) ==
  LET auto == vertex._id = NoId
      id == IF auto THEN AutoId(G) ELSE vertex._id
      G1 == IF auto THEN [G EXCEPT !.autoid = @ + 1] ELSE G
      h == Len(G.V) + 1
      obj == [_id |-> id, name |-> vertex.name, _out |-> <<>>, _in |-> <<>>]
  IN  IF ~auto /\ MapHas(G.vertexIndex, id)
        THEN [graph |-> G, ok |-> ErrorResult, val |-> 0]
        ELSE [graph |-> [G1 EXCEPT !.V = Append(@, obj),
                                   !.vertices = MapSet(@, id, h),
                                   !.vertexIndex = MapSet(@, id, h)],
              ok |-> TRUE, val |-> id]

\* the key of an edge in the edge maps: `${out._id}->${in._id}:${label}`
EdgeId(G, edge) == <<G.V[edge._out]._id, G.V[edge._in]._id, edge._label>>

\* the success path of addEdge (lines 63-70): the edge object takes the vertex
\* references, joins both adjacency lists and is set in both edge maps
LinkEdge(G, edge, inVertex, outVertex) ==
  LET e == Len(G.E) + 1
      obj == [edge EXCEPT !._in = inVertex, !._out = outVertex, !.resolved = TRUE]
      G1 == [G EXCEPT !.E = Append(@, obj)]
      G2 == [G1 EXCEPT !.V[outVertex]._out = Append(@, e)]
      G3 == [G2 EXCEPT !.V[inVertex]._in = Append(@, e)]
      edgeId == EdgeId(G3, obj)
  IN  [graph |-> [G3 EXCEPT !.edges = MapSet(@, edgeId, e),
                            !.edgeIndex = MapSet(@, edgeId, e)],
       ok |-> TRUE, edge |-> obj]

\* an addEdge that resolves the source it found, and bumps autoid, before it
\* rejects the edge for its missing target
AddEdgeResolvesFirst(G, edge) ==
  LET inVertex == findVertexById(G, edge._in)
      outVertex == findVertexById(G, edge._out)
  IN  IF inVertex # 0 /\ outVertex # 0
        THEN LinkEdge(G, edge, inVertex, outVertex)
        ELSE [graph |-> IF outVertex # 0 THEN [G EXCEPT !.autoid = @ + 1] ELSE G,
              ok |-> ErrorResult,
              edge |-> IF outVertex # 0
                         THEN [edge EXCEPT !._out = outVertex, !.resolved = TRUE]
                         ELSE edge]

\* Dagoba.G.addEdge.  The result: the store after the call, whether the call
\* went through (ok) or returned Dagoba.error's false, and the passed edge
\* object as the call left it.
AddEdge(G, edge) ==
  LET inVertex == findVertexById(G, edge._in)
      outVertex == findVertexById(G, edge._out)
  IN  IF ~(inVertex # 0 /\ outVertex # 0)
        THEN [graph |-> G, ok |-> ErrorResult, edge |-> edge]
        ELSE LinkEdge(G, edge, inVertex, outVertex)

\* Dagoba.G.addVertices / addEdges: forEach over the list, results dropped
RECURSIVE AddVertices(_, _)
AddVertices(G, list) ==
  IF list = <<>> THEN G ELSE AddVertices(AddVertex(G, Head(list)).graph, Tail(list))

RECURSIVE AddEdges(_, _)
AddEdges(G, list) ==
  IF list = <<>> THEN G ELSE AddEdges(AddEdge(G, Head(list)).graph, Tail(list))

\* Dagoba.graph(V, E): the vertices first, then the edges
Graph(V, E) == AddEdges(AddVertices(EmptyGraph, V), E)

(***************************************************************************)
(* JavaScript values that appear as step arguments and as results, tagged  *)
(* with their typeof.  Obj(s) is the object {name: s}; Fun(s) a predicate  *)
(* function known by name; VertexRef(h) the vertex object h.               *)
(***************************************************************************)
Num(n) == [t |-> "number", n |-> n, s |-> ""]
Str(s) == [t |-> "string", n |-> 0, s |-> s]
Obj(s) == [t |-> "object", n |-> 0, s |-> s]
Fun(s) == [t |-> "function", n |-> 0, s |-> s]
Undefined == [t |-> "undefined", n |-> 0, s |-> ""]
VertexRef(h) == [t |-> "vertex", n |-> h, s |-> ""]

\* args[i] of a JavaScript array (0-based), undefined past its end
Arg(args, i) == IF i + 1 <= Len(args) THEN args[i + 1] ELSE Undefined

\* !val is false
TruthyVal(val) ==
  CASE val.t = "undefined" -> FALSE
    [] val.t = "number" -> val.n # 0
    [] val.t = "string" -> val.s # ""
    [] OTHER -> TRUE

\* the property key a value makes: as[args[0]]
Key(val) == IF val.t = "string" THEN val.s ELSE "undefined"

LabelKeys == {"a", "b", "undefined"}

(***************************************************************************)
(* Serialization.  A JSON object is the sequence of its members, [key,     *)
(* val]; JSON.stringify asks the replacer for the value of each property   *)
(* of an object and leaves out the properties whose value is undefined.    *)
(***************************************************************************)
\* the properties of the vertex object h; an absent name has no entry
VertexProperties(G, h) ==
  <<[key |-> "_id", val |-> Num(G.V[h]._id)]>>
    \o (IF G.V[h].name = NoName THEN <<>> ELSE <<[key |-> "name", val |-> Str(G.V[h].name)]>>)
    \o <<[key |-> "_out", val |-> Obj("_out")], [key |-> "_in", val |-> Obj("_in")]>>

\* the properties of the edge object e; _out and _in hold vertex objects
EdgeProperties(G, e) ==
  <<[key |-> "_out", val |-> VertexRef(G.E[e]._out)],
    [key |-> "_in", val |-> VertexRef(G.E[e]._in)],
    [key |-> "_label", val |-> Str(G.E[e]._label)]>>

\* Dagoba.cleanVertex
cleanVertex(G, key, value) == IF key = "_in" \/ key = "_out" THEN Undefined ELSE value

\* a cleanEdge that replaces the vertex of _in alone by its id
cleanEdgeInOnly(G, key, value) == IF key = "_in" THEN Num(G.V[value.n]._id) ELSE value

\* Dagoba.cleanEdge: value._id for the two vertex references
cleanEdge(G, key, value) ==
  IF key = "_in" \/ key = "_out" THEN Num(G.V[value.n]._id) ELSE value

\* JSON.stringify of a member list: the members whose value is not undefined
Defined(members) ==
  LET IsDefined(member) == member.val # Undefined IN SelectSeq(members, IsDefined)

\* JSON.stringify(vertex, Dagoba.cleanVertex) of the vertex object h
StringifyVertex(G, h) ==
  LET properties == VertexProperties(G, h)
  IN  Defined([i \in DOMAIN properties |->
                 [key |-> properties[i].key,
                  val |-> cleanVertex(G, properties[i].key, properties[i].val)]])

\* JSON.stringify(edge, Dagoba.cleanEdge) of the edge object e
StringifyEdge(G, e) ==
  LET properties == EdgeProperties(G, e)
  IN  Defined([i \in DOMAIN properties |->
                 [key |-> properties[i].key,
                  val |-> cleanEdge(G, properties[i].key, properties[i].val)]])

\* Dagoba.jsonify: the vertices and the edges of the two maps, in their order
jsonify(G) ==
  [V |-> [i \in DOMAIN G.vertices |-> StringifyVertex(G, G.vertices[i].val)],
   E |-> [i \in DOMAIN G.edges |-> StringifyEdge(G, G.edges[i].val)]]

\* the value of a property of a parsed object, undefined when it has none
Member(object, key) == IF MapHas(object, key) THEN MapGet(object, key) ELSE Undefined

\* JSON.parse of a vertex and of an edge, as addVertex and addEdge read them:
\* a value that is no number is no id of the vertex index
ParsedVertex(object) ==
  [_id |-> IF Member(object, "_id").t = "number" THEN Member(object, "_id").n ELSE NoId,
   name |-> IF Member(object, "name").t = "string" THEN Member(object, "name").s ELSE NoName]

ParsedEdge(object) ==
  [_out |-> IF Member(object, "_out").t = "number" THEN Member(object, "_out").n ELSE NoId,
   _in |-> IF Member(object, "_in").t = "number" THEN Member(object, "_in").n ELSE NoId,
   _label |-> Member(object, "_label").s, resolved |-> FALSE]

\* Dagoba.fromString: Dagoba.graph(obj.V, obj.E)
fromString(str) ==
  Graph([i \in DOMAIN str.V |-> ParsedVertex(str.V[i])],
        [i \in DOMAIN str.E |-> ParsedEdge(str.E[i])])

(***************************************************************************)
(* What a pipetype returns and what the interpreter carries in             *)
(* maybeGremlin: false, undefined, 'pull', 'done' or a gremlin             *)
(* {vertex, state, result}.  A gremlin's state is a reference into the     *)
(* query's heap of state objects: gremlins made from one another share it. *)
(***************************************************************************)
False == [sig |-> "false", vertex |-> 0, state |-> 0, result |-> Undefined]
UndefinedSig == [sig |-> "undefined", vertex |-> 0, state |-> 0, result |-> Undefined]
Pull == [sig |-> "pull", vertex |-> 0, state |-> 0, result |-> Undefined]
Done == [sig |-> "done", vertex |-> 0, state |-> 0, result |-> Undefined]
Gremlin(vertex, state) ==
  [sig |-> "gremlin", vertex |-> vertex, state |-> state, result |-> Undefined]

\* if (maybeGremlin): only a gremlin object is truthy among the carried values
Truthy(g) == g.sig = "gremlin"

\* a gremlin state object with no checkpoint: Object.create(null)
EmptyMap == [k \in LabelKeys |-> 0]

\* Dagoba.makeGremlin(vertex, state): a falsy state (0) is replaced by a new
\* object.  The result: the gremlin and the heap of state objects.
makeGremlin(heap, vertex, state) ==
  IF state = 0
    THEN [gremlin |-> Gremlin(vertex, Len(heap) + 1), heap |-> Append(heap, EmptyMap)]
    ELSE [gremlin |-> Gremlin(vertex, state), heap |-> heap]

\* Dagoba.gotoVertex
gotoVertex(heap, gremlin, vertex) == makeGremlin(heap, vertex, gremlin.state)

\* Dagoba.objectFilter(thing, {name: s}) on a vertex
objectFilter(G, vertex, filter) == G.V[vertex].name = filter.s

\* Dagoba.filterEdges(filter)(edge); an edge object has no name property
filterEdges(G, filter, edge) ==
  CASE ~TruthyVal(filter) -> TRUE
    [] filter.t = "string" -> G.E[edge]._label = filter.s
    [] filter.t = "object" -> FALSE
    [] OTHER -> TRUE

\* Dagoba.G.searchVertices
searchVertices(G, filter) ==
  LET Keep(h) == objectFilter(G, h, filter) IN SelectSeq(MapValues(G.vertices), Keep)

\* a findVerticesByIds that puts each vertex found in front of the list
RECURSIVE findVerticesByIdsPrepends(_, _)
findVerticesByIdsPrepends(G, ids) ==
  IF ids = <<>> THEN <<>>
  ELSE LET id == Head(ids)
           vertex == IF id.t = "number" THEN findVertexById(G, id.n) ELSE 0
       IN  findVerticesByIdsPrepends(G, Tail(ids)) \o (IF vertex # 0 THEN <<vertex>> ELSE <<>>)

\* Dagoba.G.findVerticesByIds
RECURSIVE findVerticesByIds(_, _)
findVerticesByIds(G, ids) ==
  IF ids = <<>> THEN <<>>
  ELSE LET id == Head(ids)
           vertex == IF id.t = "number" THEN findVertexById(G, id.n) ELSE 0
       IN  (IF vertex # 0 THEN <<vertex>> ELSE <<>>) \o findVerticesByIds(G, Tail(ids))

\* Dagoba.G.findVertices
findVertices(G, args) ==
  IF Arg(args, 0).t = "object" THEN searchVertices(G, Arg(args, 0))
  ELSE IF Len(args) = 0 THEN MapValues(G.vertices)
  ELSE findVerticesByIds(G, args)

\* Dagoba.G.findOutEdges / findInEdges
findOutEdges(G, vertex) == G.V[vertex]._out
findInEdges(G, vertex) == G.V[vertex]._in

\* Array.prototype.pop: the last element and the rest
Last(list) == list[Len(list)]
Front(list) == SubSeq(list, 1, Len(list) - 1)

(***************************************************************************)
(* The state object of a program position, this.state[pc].  A field the    *)
(* code has not set yet is at its default; hasVertices / hasEdges tell an  *)
(* unset list from an empty one.  source is history: the state reference   *)
(* of the gremlin that last filled merge's list.                           *)
(***************************************************************************)
EmptyState ==
  [hasVertices |-> FALSE, vertices |-> <<>>, hasEdges |-> FALSE, edges |-> <<>>,
   gremlin |-> False, visited |-> {}, taken |-> 0, source |-> 0]

\* what a pipetype call leaves: the value returned, the position's state
\* object, the heap of gremlin state objects, and whether it threw
Ret(out, state, heap) == [out |-> out, state |-> state, heap |-> heap, threw |-> FALSE]
Throw(state, heap) == [out |-> False, state |-> state, heap |-> heap, threw |-> TRUE]

(***************************************************************************)
(* The built-in pipetypes.  Each takes the store, the step's args, the     *)
(* carried maybeGremlin, the position's state object and the heap of       *)
(* gremlin state objects.                                                  *)
(***************************************************************************)
\* 'vertex'
vertexPipetype(G, args, gremlin, state, heap) ==
  LET st1 == IF ~state.hasVertices
               THEN [state EXCEPT !.hasVertices = TRUE, !.vertices = findVertices(G, args)]
               ELSE state
      vertex == Last(st1.vertices)
      st2 == [st1 EXCEPT !.vertices = Front(@)]
      made == makeGremlin(heap, vertex, IF Truthy(gremlin) THEN gremlin.state ELSE 0)
  IN  IF Len(st1.vertices) = 0 THEN Ret(Done, st1, heap)
      ELSE Ret(made.gremlin, st2, made.heap)

\* Dagoba.simpleTraversal(dir): 'out' and 'in'
simpleTraversal(dir, G, args, gremlin, state, heap) ==
  LET pending == state.hasEdges /\ Len(state.edges) > 0
      Keep(e) == filterEdges(G, Arg(args, 0), e)
      found == IF dir = "out" THEN findOutEdges(G, gremlin.vertex)
               ELSE findInEdges(G, gremlin.vertex)
      st1 == IF ~pending
               THEN [state EXCEPT !.gremlin = gremlin, !.hasEdges = TRUE,
                                  !.edges = SelectSeq(found, Keep)]
               ELSE state
      edge == Last(st1.edges)
      vertex == IF dir = "out" THEN G.E[edge]._in ELSE G.E[edge]._out
      st2 == [st1 EXCEPT !.edges = Front(@)]
      made == gotoVertex(heap, st1.gremlin, vertex)
  IN  IF ~Truthy(gremlin) /\ ~pending THEN Ret(Pull, state, heap)
      ELSE IF Len(st1.edges) = 0 THEN Ret(Pull, st1, heap)
      ELSE Ret(made.gremlin, st2, made.heap)

\* gremlin.vertex[args[0]]
Property(G, vertex, key) ==
  CASE Key(key) = "name" ->
         IF G.V[vertex].name = NoName THEN Undefined ELSE Str(G.V[vertex].name)
    [] Key(key) = "_id" -> Num(G.V[vertex]._id)
    [] Key(key) \in {"_out", "_in"} -> Obj(Key(key))
    [] OTHER -> Undefined

\* a property that passes the gremlin on without the projected value
propertyKeepsVertex(G, args, gremlin, state, heap) ==
  LET result == Property(G, gremlin.vertex, Arg(args, 0))
  IN  IF ~Truthy(gremlin) THEN Ret(Pull, state, heap)
      ELSE IF result = Undefined THEN Ret(False, state, heap)
      ELSE Ret(gremlin, state, heap)

\* 'property'
propertyPipetype(G, args, gremlin, state, heap) ==
  LET result == Property(G, gremlin.vertex, Arg(args, 0))
  IN  IF ~Truthy(gremlin) THEN Ret(Pull, state, heap)
      ELSE IF result = Undefined THEN Ret(False, state, heap)
      ELSE Ret([gremlin EXCEPT !.result = result], state, heap)

\* a unique that passes a gremlin on without recording its vertex id
uniqueForgets(G, args, gremlin, state, heap) ==
  LET id == G.V[gremlin.vertex]._id
  IN  IF ~Truthy(gremlin) THEN Ret(Pull, state, heap)
      ELSE IF id \in state.visited THEN Ret(Pull, state, heap)
      ELSE Ret(gremlin, state, heap)

\* 'unique'
uniquePipetype(G, args, gremlin, state, heap) ==
  LET id == G.V[gremlin.vertex]._id
  IN  IF ~Truthy(gremlin) THEN Ret(Pull, state, heap)
      ELSE IF id \in state.visited THEN Ret(Pull, state, heap)
      ELSE Ret(gremlin, [state EXCEPT !.visited = @ \cup {id}], heap)

\* the predicate functions the queries pass to filter
Predicate(G, fun, vertex) ==
  CASE fun.s = "hasOutEdges" -> Len(G.V[vertex]._out) > 0
    [] OTHER -> TRUE

\* 'filter'
filterPipetype(G, args, gremlin, state, heap) ==
  IF ~Truthy(gremlin) THEN Ret(Pull, state, heap)
  ELSE IF Arg(args, 0).t = "object"
    THEN Ret(IF objectFilter(G, gremlin.vertex, Arg(args, 0)) THEN gremlin ELSE Pull,
             state, heap)
  ELSE IF Arg(args, 0).t # "function" THEN Ret(gremlin, state, heap)
  ELSE IF ~Predicate(G, Arg(args, 0), gremlin.vertex) THEN Ret(Pull, state, heap)
  ELSE Ret(gremlin, state, heap)

\* a take that looks for more than N taken, one too late
takeOneTooMany(G, args, gremlin, state, heap) ==
  IF Arg(args, 0).t = "number" /\ state.taken > Arg(args, 0).n
    THEN Ret(Done, [state EXCEPT !.taken = 0], heap)
  ELSE IF ~Truthy(gremlin) THEN Ret(Pull, state, heap)
  ELSE Ret(gremlin, [state EXCEPT !.taken = @ + 1], heap)

\* 'take'
takePipetype(G, args, gremlin, state, heap) ==
  IF Arg(args, 0) = Num(state.taken) THEN Ret(Done, [state EXCEPT !.taken = 0], heap)
  ELSE IF ~Truthy(gremlin) THEN Ret(Pull, state, heap)
  ELSE Ret(gremlin, [state EXCEPT !.taken = @ + 1], heap)

\* 'as'
asPipetype(G, args, gremlin, state, heap) ==
  IF ~Truthy(gremlin) THEN Ret(Pull, state, heap)
  ELSE Ret(gremlin, state,
           [heap EXCEPT ![gremlin.state][Key(Arg(args, 0))] = gremlin.vertex])

\* a back that finds the checkpoint and passes the gremlin on where it is
backStaysPut(G, args, gremlin, state, heap) ==
  LET targetVertex == heap[gremlin.state][Key(Arg(args, 0))]
  IN  IF ~Truthy(gremlin) THEN Ret(Pull, state, heap)
      ELSE IF targetVertex = 0 THEN Ret(Pull, state, heap)
      ELSE Ret(gremlin, state, heap)

\* 'back'
backPipetype(G, args, gremlin, state, heap) ==
  LET targetVertex == heap[gremlin.state][Key(Arg(args, 0))]
      made == gotoVertex(heap, gremlin, targetVertex)
  IN  IF ~Truthy(gremlin) THEN Ret(Pull, state, heap)
      ELSE IF targetVertex = 0 THEN Ret(Pull, state, heap)
      ELSE Ret(made.gremlin, state, made.heap)

\* 'except'
exceptPipetype(G, args, gremlin, state, heap) ==
  LET exceptVertex == heap[gremlin.state][Key(Arg(args, 0))]
  IN  IF ~Truthy(gremlin) THEN Ret(Pull, state, heap)
      ELSE IF gremlin.vertex = exceptVertex THEN Ret(Pull, state, heap)
      ELSE Ret(gremlin, state, heap)

\* merge's loop over args: the checkpointed vertices of the labels that have one
RECURSIVE mergeVertices(_, _)
mergeVertices(asState, args) ==
  IF args = <<>> THEN <<>>
  ELSE (IF asState[Key(Head(args))] # 0 THEN <<asState[Key(Head(args))]>> ELSE <<>>)
       \o mergeVertices(asState, Tail(args))

\* 'merge'.  gremlin.state of the carried false is undefined, and reading .as
\* of it throws a TypeError; gremlin.state of a carried undefined throws.
mergePipetype(G, args, gremlin, state, heap) ==
  LET refill == ~state.hasVertices \/ Len(state.vertices) = 0
      st1 == IF refill
               THEN [state EXCEPT !.hasVertices = TRUE,
                                  !.vertices = mergeVertices(heap[gremlin.state], args),
                                  !.source = gremlin.state]
               ELSE state
      vertex == Last(st1.vertices)
      st2 == [st1 EXCEPT !.vertices = Front(@)]
      made == makeGremlin(heap, vertex, IF Truthy(gremlin) THEN gremlin.state ELSE 0)
  IN  IF ~state.hasVertices /\ ~Truthy(gremlin) THEN Ret(Pull, state, heap)
      ELSE IF refill /\ ~Truthy(gremlin) THEN Throw(state, heap)
      ELSE IF Len(st1.vertices) = 0 THEN Ret(Pull, st1, heap)
      ELSE IF gremlin = UndefinedSig THEN Throw(st2, heap)
      ELSE Ret(made.gremlin, st2, made.heap)

\* a faux pipetype that asks for input whatever it was given
fauxAlwaysPulls(G, args, gremlin, state, heap) == Ret(Pull, state, heap)

\* Dagoba.fauxPipetype: maybeGremlin || 'pull'
fauxPipetype(G, args, gremlin, state, heap) ==
  Ret(IF Truthy(gremlin) THEN gremlin ELSE Pull, state, heap)

\* the stage addAlias registers under the alias name: function () {}
noopPipetype(G, args, gremlin, state, heap) == Ret(UndefinedSig, state, heap)

(***************************************************************************)
(* The pipetype registry.  Pipetypes maps a registered name to the         *)
(* behaviour function it was registered with, known by name.               *)
(***************************************************************************)
BuiltIns ==
  {"vertex", "in", "out", "property", "unique", "filter", "take", "as", "back",
   "except", "merge"}

\* Dagoba.Pipetypes after the module has loaded (the addPipetype calls of
\* lines 223-374)
BuiltInPipetypes == [name \in BuiltIns |-> name]

\* Dagoba.addPipetype
AddPipetype(P, name, fun) ==
  [n \in DOMAIN P \cup {name} |-> IF n = name THEN fun ELSE P[n]]

\* Dagoba.getPipetype: the registered function, or fauxPipetype
getPipetype(P, name) == IF name \in DOMAIN P THEN P[name] ELSE "faux"

\* the call pipetype(this.graph, step[1], maybeGremlin, state)
Invoke(pipetype, G, args, gremlin, state, heap) ==
  CASE pipetype = "vertex" -> vertexPipetype(G, args, gremlin, state, heap)
    [] pipetype = "out" -> simpleTraversal("out", G, args, gremlin, state, heap)
    [] pipetype = "in" -> simpleTraversal("in", G, args, gremlin, state, heap)
    [] pipetype = "property" -> propertyPipetype(G, args, gremlin, state, heap)
    [] pipetype = "unique" -> uniquePipetype(G, args, gremlin, state, heap)
    [] pipetype = "filter" -> filterPipetype(G, args, gremlin, state, heap)
    [] pipetype = "take" -> takePipetype(G, args, gremlin, state, heap)
    [] pipetype = "as" -> asPipetype(G, args, gremlin, state, heap)
    [] pipetype = "back" -> backPipetype(G, args, gremlin, state, heap)
    [] pipetype = "except" -> exceptPipetype(G, args, gremlin, state, heap)
    [] pipetype = "merge" -> mergePipetype(G, args, gremlin, state, heap)
    [] pipetype = "noop" -> noopPipetype(G, args, gremlin, state, heap)
    [] OTHER -> fauxPipetype(G, args, gremlin, state, heap)

(***************************************************************************)
(* Transformers.  A transformer function is known by what it does: the     *)
(* rewrite addAlias builds (kind "alias"), a caller's function that        *)
(* returns the program as it is ("identity"), or a value that is not a     *)
(* function ("notfunction").                                               *)
(***************************************************************************)
Step(name, args) == [name |-> name, args |-> args]

\* Dagoba.extend(list, defaults): defaults fill the positions the list leaves
\* undefined
extend(list, defaults) ==
  LET n == IF Len(list) > Len(defaults) THEN Len(list) ELSE Len(defaults)
  IN  [i \in 1..n |-> IF Arg(list, i - 1) # Undefined THEN list[i]
                      ELSE Arg(defaults, i - 1)]

AliasFun(newname, oldname, defaults) ==
  [kind |-> "alias", newname |-> newname, oldname |-> oldname, defaults |-> defaults]

\* transformer.fun(program)
ApplyTransformer(fun, program) ==
  IF fun.kind = "alias"
    THEN [i \in DOMAIN program |->
            IF program[i].name # fun.newname THEN program[i]
            ELSE Step(fun.oldname, extend(program[i].args, fun.defaults))]
    ELSE program

\* Dagoba.transform: T.reduce over the registry, in its order
RECURSIVE transform(_, _)
transform(list, program) ==
  IF list = <<>> THEN program ELSE transform(Tail(list), ApplyTransformer(Head(list).fun, program))

\* Array.prototype.splice(i, 0, entry), i 0-based
Splice(list, i, entry) ==
  SubSeq(list, 1, i) \o <<entry>> \o SubSeq(list, i + 1, Len(list))

\* the loop of Dagoba.addTransformer from index i on.  Each splice moves the
\* entry just compared to i + 1, where the next round compares it again, so
\* a loop that splices once never ends: after MaxSplices rounds the call is
\* known to diverge.
RECURSIVE spliceLoop(_, _, _, _)
spliceLoop(list, i, entry, rounds) ==
  IF ~(i < Len(list)) THEN [T |-> list, diverges |-> FALSE]
  ELSE IF entry.priority > list[i + 1].priority THEN [T |-> list, diverges |-> FALSE]
  ELSE IF rounds = MaxSplices THEN [T |-> list, diverges |-> TRUE]
  ELSE spliceLoop(Splice(list, i, entry), i + 1, entry, rounds + 1)

\* Dagoba.addTransformer.  The result: the registry after the call, whether
\* the call returned Dagoba.error's false, and whether it never returns.
AddTransformer(list, fun, priority) ==
  IF fun.kind = "notfunction" THEN [T |-> list, ok |-> ErrorResult, diverges |-> FALSE]
  ELSE LET r == spliceLoop(list, 0, [priority |-> priority, fun |-> fun], 0)
       IN  [T |-> r.T, ok |-> TRUE, diverges |-> r.diverges]

\* the priority addAlias registers its transformer with
AliasPriority == 100

(***************************************************************************)
(* A query object and one execution of it.  status tells where the object  *)
(* is: "none" (not created), "built" (Dagoba.query and add calls),         *)
(* "running" (inside the loop of Q.run), "halted" (the loop was left with  *)
(* done >= max) or "threw" (a pipetype threw and the generator ended).     *)
(* pc, done and max are the 0-based numbers of the code.  heap holds the   *)
(* gremlin state objects the execution made.  last, passed and tick are    *)
(* history: the last pipetype call, the number of gremlins each position   *)
(* returned, and the parity of the number of cycles; emitted holds, by     *)
(* position, the vertex ids of the gremlins the position returned in this  *)
(* execution, runs counts the executions of the object and previous holds  *)
(* the results of the execution before this one.                           *)
(***************************************************************************)
NoLast == [pos |-> -1, in |-> False, out |-> False]

NoQuery ==
  [status |-> "none", program |-> <<>>, state |-> <<>>, heap |-> <<>>,
   pc |-> 0, done |-> -1, max |-> -1, maybeGremlin |-> False, results |-> <<>>,
   last |-> NoLast, passed |-> <<>>, tick |-> 0,
   emitted |-> <<>>, runs |-> 0, previous |-> <<>>]

\* Dagoba.query
Query == [NoQuery EXCEPT !.status = "built"]

\* Dagoba.Q.add
Add(q, pipetype, args) == [q EXCEPT !.program = Append(@, Step(pipetype, args))]

\* Dagoba.G.v
V(args) == Add(Query, "vertex", args)

\* a run that starts from new state objects at every position
StartRunResetsState(list, q) ==
  LET program == transform(list, q.program)
      max == Len(program) - 1
  IN  [q EXCEPT !.program = program, !.max = max, !.done = -1, !.pc = max,
                !.maybeGremlin = False, !.results = <<>>,
                !.state = [i \in 1..Len(program) |-> EmptyState],
                !.passed = [i \in 1..Len(program) |-> 0],
                !.emitted = [i \in 1..Len(program) |-> <<>>],
                !.runs = @ + 1, !.previous = q.results,
                !.last = NoLast,
                !.status = IF -1 < max THEN "running" ELSE "halted"]

\* Q.run up to the loop (lines 149-154): the program is transformed and the
\* cursors are set.  this.state keeps the state objects it has; a position
\* that has none yet gets an empty one when the loop first visits it.
StartRun(list, q) ==
  LET program == transform(list, q.program)
      max == Len(program) - 1
  IN  [q EXCEPT !.program = program, !.max = max, !.done = -1, !.pc = max,
                !.maybeGremlin = False, !.results = <<>>,
                !.state = [i \in 1..Len(program) |->
                             IF i <= Len(q.state) THEN q.state[i] ELSE EmptyState],
                !.passed = [i \in 1..Len(program) |-> 0],
                !.emitted = [i \in 1..Len(program) |-> <<>>],
                !.runs = @ + 1, !.previous = q.results,
                !.last = NoLast,
                !.status = IF -1 < max THEN "running" ELSE "halted"]

\* the value yielded for a gremlin that got past the last step
Yielded(gremlin) ==
  IF gremlin.result # Undefined THEN gremlin.result ELSE VertexRef(gremlin.vertex)

\* a round that, on 'pull', also moves back to the position done names
RunCycleRetreatsToSettled(G, P, q) ==
  LET pc == q.pc
      step == q.program[pc + 1]
      pipetype == getPipetype(P, step.name)
      r == Invoke(pipetype, G, step.args, q.maybeGremlin, q.state[pc + 1], q.heap)
      q1 == [q EXCEPT !.state[pc + 1] = r.state, !.heap = r.heap,
                      !.last = [pos |-> pc, in |-> q.maybeGremlin, out |-> r.out],
                      !.passed[pc + 1] = IF Truthy(r.out) THEN @ + 1 ELSE @,
                      !.emitted[pc + 1] = IF Truthy(r.out)
                                            THEN Append(@, G.V[r.out.vertex]._id) ELSE @,
                      !.tick = 1 - @]
      pulled == r.out = Pull
      retreat == pulled /\ pc - 1 >= q.done /\ pc > 0
      done1 == IF pulled \/ r.out = Done THEN pc ELSE q.done
      mg1 == IF pulled \/ r.out = Done THEN False ELSE r.out
      pc1 == pc + 1
  IN  IF r.threw THEN [q1 EXCEPT !.status = "threw"]
      ELSE IF retreat THEN [q1 EXCEPT !.maybeGremlin = False, !.pc = pc - 1]
      ELSE [q1 EXCEPT !.done = done1,
                      !.maybeGremlin = IF pc1 > q.max THEN False ELSE mg1,
                      !.pc = IF pc1 > q.max THEN pc1 - 1 ELSE pc1,
                      !.results = IF pc1 > q.max /\ Truthy(mg1)
                                    THEN Append(@, Yielded(mg1)) ELSE @,
                      !.status = IF done1 < q.max THEN "running" ELSE "halted"]

\* one round of the while loop of Q.run (lines 158-189)
RunCycle(G, P, q) ==
  LET pc == q.pc
      step == q.program[pc + 1]
      pipetype == getPipetype(P, step.name)
      r == Invoke(pipetype, G, step.args, q.maybeGremlin, q.state[pc + 1], q.heap)
      q1 == [q EXCEPT !.state[pc + 1] = r.state, !.heap = r.heap,
                      !.last = [pos |-> pc, in |-> q.maybeGremlin, out |-> r.out],
                      !.passed[pc + 1] = IF Truthy(r.out) THEN @ + 1 ELSE @,
                      !.emitted[pc + 1] = IF Truthy(r.out)
                                            THEN Append(@, G.V[r.out.vertex]._id) ELSE @,
                      !.tick = 1 - @]
      pulled == r.out = Pull
      retreat == pulled /\ pc - 1 > q.done
      done1 == IF pulled \/ r.out = Done THEN pc ELSE q.done
      mg1 == IF pulled \/ r.out = Done THEN False ELSE r.out
      pc1 == pc + 1
  IN  IF r.threw THEN [q1 EXCEPT !.status = "threw"]
      ELSE IF retreat THEN [q1 EXCEPT !.maybeGremlin = False, !.pc = pc - 1]
      ELSE [q1 EXCEPT !.done = done1,
                      !.maybeGremlin = IF pc1 > q.max THEN False ELSE mg1,
                      !.pc = IF pc1 > q.max THEN pc1 - 1 ELSE pc1,
                      !.results = IF pc1 > q.max /\ Truthy(mg1)
                                    THEN Append(@, Yielded(mg1)) ELSE @,
                      !.status = IF done1 < q.max THEN "running" ELSE "halted"]

Stopped(q) == q.status \in {"halted", "threw"}

\* a round in which out / in pops the edge from the adjacency list of the
\* store's vertex itself, the array findOutEdges / findInEdges returns
StorePoppedByTraversal(G, P, q) ==
  LET step == q.program[q.pc + 1]
      r == Invoke(getPipetype(P, step.name), G, step.args, q.maybeGremlin,
                  q.state[q.pc + 1], q.heap)
      from == r.state.gremlin.vertex
  IN  IF ~(step.name \in {"out", "in"} /\ Truthy(r.out)) THEN G
      ELSE IF step.name = "out" THEN [G EXCEPT !.V[from]._out = Front(@)]
      ELSE [G EXCEPT !.V[from]._in = Front(@)]

\* the store after a round of the loop of q.  The arrays a pipetype pops from
\* are arrays of its own state object: state.vertices of the vertex step is
\* the array Array.from, searchVertices or findVerticesByIds builds,
\* state.edges of out / in the array filter() returns, state.vertices of
\* merge its own array; and no pipetype assigns to a field of the graph, of
\* a vertex or of an edge (as and property write to the gremlin).
StoreAfterCycle(G, P, q) == G

\* the execution of q from where it is to its end, with no other call between
\* its rounds
RECURSIVE RunToEnd(_, _, _, _)
RunToEnd(G, P, q, rounds) ==
  IF q.status # "running" \/ rounds = 0 THEN q
  ELSE RunToEnd(G, P, RunCycle(G, P, q), rounds - 1)

NoCall == [op |-> "none", ok |-> TRUE, val |-> 0, arg |-> NoEdge, edge |-> NoEdge]

(***************************************************************************)
(* The store's operations as actions.                                      *)
(***************************************************************************)
addVertex ==
  \E vertex \in VertexInputs :
    LET r == AddVertex(graph, vertex)
    IN  /\ Len(r.graph.V) <= MaxVertices
        /\ graph' = r.graph
        /\ ret' = [op |-> "addVertex", ok |-> r.ok, val |-> r.val,
                   arg |-> NoEdge, edge |-> NoEdge]
        /\ UNCHANGED <<Pipetypes, T, registered, queries>>

addEdge ==
  \E edge \in EdgeInputs :
    LET r == AddEdge(graph, edge)
    IN  /\ Len(r.graph.E) <= MaxEdges
        /\ graph' = r.graph
        /\ ret' = [op |-> "addEdge", ok |-> r.ok, val |-> 0,
                   arg |-> edge, edge |-> r.edge]
        /\ UNCHANGED <<Pipetypes, T, registered, queries>>

vars == <<graph, ret, Pipetypes, T, registered, queries>>

InitStore ==
  /\ graph = EmptyGraph
  /\ ret = NoCall
  /\ Pipetypes = BuiltInPipetypes
  /\ T = <<>>
  /\ registered = <<>>
  /\ queries = [i \in Queries |-> NoQuery]

NextStore == addVertex \/ addEdge

SpecStore == InitStore /\ [][NextStore]_vars

(***************************************************************************)
(* Queries over a store that is not being changed.                         *)
(***************************************************************************)
\* the store of the spec's scenarios: 1 -knows-> 2
ScenarioStore ==
  Graph(<<[_id |-> 1, name |-> "a"], [_id |-> 2, name |-> "b"]>>,
        <<[_out |-> 1, _in |-> 2, _label |-> "knows", resolved |-> FALSE]>>)

\* a store with a branch, a cycle, two labels and a vertex that has no name
BranchStore ==
  Graph(<<[_id |-> 1, name |-> "a"], [_id |-> 2, name |-> "b"],
          [_id |-> 3, name |-> NoName]>>,
        <<[_out |-> 1, _in |-> 2, _label |-> "knows", resolved |-> FALSE],
          [_out |-> 1, _in |-> 3, _label |-> "knows", resolved |-> FALSE],
          [_out |-> 2, _in |-> 3, _label |-> "likes", resolved |-> FALSE],
          [_out |-> 3, _in |-> 1, _label |-> "knows", resolved |-> FALSE]>>)

Stores == {ScenarioStore, BranchStore}

\* the arguments of g.v(...): all vertices, one id, ids with a missing one
VertexArgs == {<<>>, <<Num(1)>>, <<Num(2), Num(7), Num(1)>>}

\* the steps the queries are built from; "foo" is no registered pipetype
Steps ==
  {Step("out", <<>>), Step("in", <<>>), Step("property", <<Str("name")>>),
   Step("unique", <<>>), Step("filter", <<Fun("hasOutEdges")>>),
   Step("take", <<Num(1)>>), Step("take", <<Num(2)>>),
   Step("as", <<Str("a")>>), Step("as", <<Str("b")>>), Step("back", <<Str("a")>>),
   Step("except", <<Str("a")>>), Step("merge", <<Str("a"), Str("b")>>),
   Step("foo", <<>>)}

\* g.v(args): a new query object i that starts at the vertex step
v(i, argses) ==
  \E args \in argses :
    /\ queries[i].status = "none"
    /\ queries' = [queries EXCEPT ![i] = V(args)]
    /\ UNCHANGED <<graph, ret, Pipetypes, T, registered>>

\* query.add(name, args), or the builder method of a registered name
add(i, steps) ==
  \E step \in steps :
    /\ queries[i].status = "built"
    /\ Len(queries[i].program) < MaxSteps
    /\ queries' = [queries EXCEPT ![i] = Add(@, step.name, step.args)]
    /\ UNCHANGED <<graph, ret, Pipetypes, T, registered>>

\* query.run() and the first next(): the generator body starts
run(i) ==
  /\ queries[i].status = "built"
  /\ queries' = [queries EXCEPT ![i] = StartRun(T, @)]
  /\ UNCHANGED <<graph, ret, Pipetypes, T, registered>>

\* one round of the loop of the running query i
cycle(i) ==
  /\ queries[i].status = "running"
  /\ queries' = [queries EXCEPT ![i] = RunCycle(graph, Pipetypes, @)]
  /\ graph' = StoreAfterCycle(graph, Pipetypes, queries[i])
  /\ UNCHANGED <<ret, Pipetypes, T, registered>>

\* the steps of a program whose names are registered
Registered(P, program) ==
  LET Keep(step) == step.name \in DOMAIN P IN SelectSeq(program, Keep)

\* once query 1 has stopped: query 2 is built from the same steps without the
\* unregistered ones, and run
runWithout ==
  /\ Stopped(queries[1])
  /\ queries[2].status = "none"
  /\ Registered(Pipetypes, queries[1].program) # queries[1].program
  /\ queries' = [queries EXCEPT ![2] =
                   StartRun(T, [Query EXCEPT !.program =
                                  Registered(Pipetypes, queries[1].program)])]
  /\ UNCHANGED <<graph, ret, Pipetypes, T, registered>>

InitQuery ==
  /\ graph \in Stores
  /\ ret = NoCall
  /\ Pipetypes = BuiltInPipetypes
  /\ T = <<>>
  /\ registered = <<>>
  /\ queries = [i \in Queries |-> NoQuery]

NextQuery ==
  \/ v(1, VertexArgs)
  \/ add(1, Steps)
  \/ run(1)
  \/ cycle(1)
  \/ runWithout
  \/ cycle(2)

SpecQuery == InitQuery /\ [][NextQuery]_vars

(***************************************************************************)
(* Transformers and aliases.  The registries are set up before the query   *)
(* is built.  Query 2 is the reference of query 1: the program of query 1  *)
(* with every transformer that was registered applied to it once, run to   *)
(* its end before query 1 runs.                                            *)
(***************************************************************************)
IdentityFun == [kind |-> "identity", newname |-> "", oldname |-> "", defaults |-> <<>>]
NotAFunction == [kind |-> "notfunction", newname |-> "", oldname |-> "", defaults |-> <<>>]

TransformerFuns == {IdentityFun, NotAFunction}
Priorities == {50, 150}

\* the aliases the callers define: friends = out('knows'), top = take(1)
Aliases ==
  {AliasFun("friends", "out", <<Str("knows")>>), AliasFun("top", "take", <<Num(1)>>)}

AliasSteps ==
  {Step("friends", <<>>), Step("friends", <<Str("likes")>>), Step("top", <<>>),
   Step("out", <<>>), Step("property", <<Str("name")>>)}

\* Dagoba.addTransformer(fun, priority); a call that never returns has no
\* state after it
addTransformer ==
  \E fun \in TransformerFuns, priority \in Priorities :
    LET r == AddTransformer(T, fun, priority)
    IN  /\ queries[1].status = "none"
        /\ Len(registered) < MaxRegistered
        /\ ~r.diverges
        /\ T' = r.T
        /\ registered' = IF r.ok = ErrorResult THEN registered
                         ELSE Append(registered, [priority |-> priority, fun |-> fun])
        /\ UNCHANGED <<graph, ret, Pipetypes, queries>>

\* Dagoba.addAlias(newname, oldname, defaults): the no-op pipetype under the
\* new name, then the rewriting transformer
addAlias ==
  \E alias \in Aliases :
    LET r == AddTransformer(T, alias, AliasPriority)
    IN  /\ queries[1].status = "none"
        /\ Len(registered) < MaxRegistered
        /\ ~r.diverges
        /\ Pipetypes' = AddPipetype(Pipetypes, alias.newname, "noop")
        /\ T' = r.T
        /\ registered' = Append(registered, [priority |-> AliasPriority, fun |-> alias])
        /\ UNCHANGED <<graph, ret, queries>>

\* the reference query: built from the program of query 1 as the registered
\* transformers rewrite it, and run
runRewritten ==
  /\ queries[1].status = "built"
  /\ queries[2].status = "none"
  /\ queries' = [queries EXCEPT ![2] =
                   StartRun(T, [Query EXCEPT !.program =
                                  transform(registered, queries[1].program)])]
  /\ UNCHANGED <<graph, ret, Pipetypes, T, registered>>

InitAlias ==
  /\ graph = BranchStore
  /\ ret = NoCall
  /\ Pipetypes = BuiltInPipetypes
  /\ T = <<>>
  /\ registered = <<>>
  /\ queries = [i \in Queries |-> NoQuery]

NextAlias ==
  \/ addTransformer
  \/ addAlias
  \/ v(1, {<<>>})
  \/ (queries[2].status = "none" /\ add(1, AliasSteps))
  \/ runRewritten
  \/ cycle(2)
  \/ (Stopped(queries[2]) /\ run(1))
  \/ cycle(1)

SpecAlias == InitAlias /\ [][NextAlias]_vars

\* the caller keeps asking the generator for results
FairSpecAlias == SpecAlias /\ WF_vars(NextAlias)

(***************************************************************************)
(* Traversals: programs of the vertex step and of out, in, filter,         *)
(* property, unique, as, back and except steps.                            *)
(***************************************************************************)
\* a store with two edges from vertex 1 to vertex 2
ParallelStore ==
  Graph(<<[_id |-> 1, name |-> "a"], [_id |-> 2, name |-> "b"]>>,
        <<[_out |-> 1, _in |-> 2, _label |-> "knows", resolved |-> FALSE],
          [_out |-> 1, _in |-> 2, _label |-> "likes", resolved |-> FALSE]>>)

TraverseStores == {ScenarioStore, BranchStore, ParallelStore}

TraverseSteps ==
  {Step("out", <<>>), Step("out", <<Str("knows")>>), Step("in", <<>>),
   Step("filter", <<Fun("hasOutEdges")>>), Step("property", <<Str("name")>>),
   Step("unique", <<>>), Step("as", <<Str("a")>>), Step("back", <<Str("a")>>),
   Step("back", <<Str("b")>>), Step("except", <<Str("a")>>)}

InitTraverse ==
  /\ graph \in TraverseStores
  /\ ret = NoCall
  /\ Pipetypes = BuiltInPipetypes
  /\ T = <<>>
  /\ registered = <<>>
  /\ queries = [i \in Queries |-> NoQuery]

NextTraverse ==
  \/ v(1, VertexArgs)
  \/ add(1, TraverseSteps)
  \/ run(1)
  \/ cycle(1)

SpecTraverse == InitTraverse /\ [][NextTraverse]_vars

(***************************************************************************)
(* A query object that is run again.  The store is built by insertions     *)
(* before the query is.                                                    *)
(***************************************************************************)
RerunSteps == {Step("take", <<Num(1)>>), Step("take", <<Num(2)>>)}

\* query.run() on a query object whose last execution has stopped
rerun(i) ==
  /\ Stopped(queries[i])
  /\ queries[i].runs < MaxRuns
  /\ queries' = [queries EXCEPT ![i] = StartRun(T, @)]
  /\ UNCHANGED <<graph, ret, Pipetypes, T, registered>>

NextRerun ==
  \/ (queries[1].status = "none" /\ addVertex)
  \/ (queries[1].status = "none" /\ addEdge)
  \/ v(1, {<<>>})
  \/ (Len(queries[1].program) = 1 /\ add(1, RerunSteps))
  \/ run(1)
  \/ cycle(1)
  \/ rerun(1)

SpecRerun == InitStore /\ [][NextRerun]_vars

(***************************************************************************)
(* Two query objects over one store, their executions interleaved.         *)
(***************************************************************************)
PairPrograms ==
  {<<Step("vertex", <<>>), Step("out", <<>>)>>,
   <<Step("vertex", <<>>), Step("out", <<>>), Step("unique", <<>>)>>,
   <<Step("vertex", <<>>), Step("take", <<Num(2)>>)>>,
   <<Step("vertex", <<Num(1)>>), Step("as", <<Str("a")>>), Step("out", <<>>),
     Step("back", <<Str("a")>>)>>,
   <<Step("vertex", <<>>), Step("as", <<Str("a")>>), Step("in", <<>>),
     Step("except", <<Str("a")>>)>>,
   <<Step("vertex", <<>>), Step("property", <<Str("name")>>)>>}

\* both query objects are built, neither has run
InitPair ==
  /\ graph \in Stores
  /\ ret = NoCall
  /\ Pipetypes = BuiltInPipetypes
  /\ T = <<>>
  /\ registered = <<>>
  /\ queries \in [Queries -> {[Query EXCEPT !.program = program] : program \in PairPrograms}]

NextPair ==
  \/ run(1)
  \/ run(2)
  \/ cycle(1)
  \/ cycle(2)

SpecPair == InitPair /\ [][NextPair]_vars

(***************************************************************************)
(* Snapshots: the store is serialized and rebuilt from the text, and the   *)
(* insertions go on in the rebuilt store.                                  *)
(***************************************************************************)
\* graph = Dagoba.fromString(graph.toString())
roundTrip ==
  /\ graph' = fromString(jsonify(graph))
  /\ ret' = [op |-> "fromString", ok |-> TRUE, val |-> 0, arg |-> NoEdge, edge |-> NoEdge]
  /\ UNCHANGED <<Pipetypes, T, registered, queries>>

NextSnapshot == addVertex \/ addEdge \/ roundTrip

SpecSnapshot == InitStore /\ [][NextSnapshot]_vars

(***************************************************************************)
(* The store's claims.                                                     *)
(***************************************************************************)
\* the vertex object the edge object e has as its source / target
SourceOf(e) == graph.E[e]._out
TargetOf(e) == graph.E[e]._in

\* C1: no two vertex objects accepted into the store share an _id, whether
\* the _id came from the caller or from autoid.
C1_UniqueIds ==
  \A h1, h2 \in DOMAIN graph.V :
    h1 # h2 => graph.V[h1]._id # graph.V[h2]._id

\* C2: a rejected addVertex or addEdge returns the failure signal and leaves
\* the whole store as it was (both vertex maps, both edge maps, every _out and
\* _in list, autoid), and the passed edge still holds its raw ids.
C2_FailedInsertionAtomic ==
  [][ret'.ok = ErrorResult => (graph' = graph /\ ret'.edge = ret'.arg)]_vars

\* an addEdge was rejected for its missing target while its source exists
C2_Witness ==
  /\ ret.op = "addEdge"
  /\ ret.ok = ErrorResult
  /\ findVertexById(graph, ret.arg._out) # 0
  /\ findVertexById(graph, ret.arg._in) = 0
  /\ Len(graph.E) > 0

\* C3: every edge in the edge map has as source and target the vertex objects
\* the vertex index holds under their ids, is in the _out list of its source
\* and the _in list of its target, and in no other adjacency list.
C3_EdgeEndpointIntegrity ==
  \A i \in DOMAIN graph.edges :
    LET e == graph.edges[i].val
        src == SourceOf(e)
        tgt == TargetOf(e)
    IN  /\ findVertexById(graph, graph.V[src]._id) = src
        /\ findVertexById(graph, graph.V[tgt]._id) = tgt
        /\ \A h \in DOMAIN graph.V :
             /\ (e \in Range(graph.V[h]._out)) <=> (h = src)
             /\ (e \in Range(graph.V[h]._in)) <=> (h = tgt)

(***************************************************************************)
(* The interpreter's claims.                                               *)
(***************************************************************************)
AllBuiltIn(program) == \A k \in DOMAIN program : program[k].name \in BuiltIns

\* the step the last pipetype call of q was for
LastStep(q) == q.program[q.last.pos + 1]

\* C4: a program of registered built-in stages leaves the loop of Q.run only
\* by its condition, with done >= max.
C4_RunHalts ==
  \A i \in Queries :
    (Stopped(queries[i]) /\ AllBuiltIn(queries[i].program))
      => (queries[i].status = "halted" /\ queries[i].done >= queries[i].max)

\* position p (0-based) of q holds take(N) and has returned N gremlins
TakeFull(q, p) ==
  /\ q.program[p + 1].name = "take"
  /\ Arg(q.program[p + 1].args, 0) = Num(q.passed[p + 1])

\* C5: a take(N) position returns at most N gremlins in an execution; once it
\* has returned the Nth, no round of the loop calls a position upstream of
\* it, and the next call of take returns 'done' and settles its position.
C5_TakeEarlyExit ==
  /\ [](\A i \in Queries : \A k \in DOMAIN queries[i].passed :
          (queries[i].program[k].name = "take"
             /\ Arg(queries[i].program[k].args, 0).t = "number")
            => queries[i].passed[k] <= Arg(queries[i].program[k].args, 0).n)
  /\ [][\A i \in Queries :
          (queries[i].status = "running" /\ queries'[i] # queries[i])
            => \A p \in 0..queries[i].max :
                 TakeFull(queries[i], p)
                   => /\ queries[i].pc >= p
                      /\ (queries[i].pc = p
                            => /\ queries'[i].last.out = Done
                               /\ queries'[i].done = p)]_vars

\* take(2) at position 1 returned two gremlins and the run halted while the
\* vertex step upstream still held a candidate
C5_Witness ==
  LET q == queries[1]
  IN  /\ q.status = "halted"
      /\ Len(q.program) >= 3
      /\ q.program[2] = Step("take", <<Num(2)>>)
      /\ q.passed[2] = 2
      /\ Len(q.results) = 2
      /\ q.state[1].vertices # <<>>

\* the list of the merge at position p of q was last filled from a gremlin
\* whose state object has a checkpoint under one of merge's labels
Triggered(q, p) ==
  /\ q.state[p + 1].source # 0
  /\ mergeVertices(q.heap[q.state[p + 1].source], q.program[p + 1].args) # <<>>

\* C6: once a gremlin with checkpoints under some of its labels has reached
\* merge, every gremlin merge returns has the state object of that gremlin,
\* and a merge call with no input and an emptied list returns 'pull': the
\* call does not throw.
C6_MergeForks ==
  \A i \in Queries :
    LET q == queries[i]
    IN  (q.last.pos >= 0 /\ LastStep(q).name = "merge" /\ Triggered(q, q.last.pos))
          => /\ q.status # "threw"
             /\ Truthy(q.last.out) => q.last.out.state = q.state[q.last.pos + 1].source

\* C10: a step of an unregistered name never makes the run throw, and the
\* run ends as the run of the same program without that step ends, with the
\* same results in the same order.
C10_UnknownStepPassesThrough ==
  /\ (queries[1].status = "threw" => LastStep(queries[1]).name \in DOMAIN Pipetypes)
  /\ (Stopped(queries[1]) /\ Stopped(queries[2]))
       => /\ queries[2].status = queries[1].status
          /\ queries[2].results = queries[1].results

\* v().foo().out() and v().out() both halted after six results
C10_Witness ==
  /\ queries[1].status = "halted"
  /\ queries[2].status = "halted"
  /\ Len(queries[1].program) = Len(queries[2].program) + 1
  /\ queries[1].program[2].name = "foo"
  /\ Len(queries[1].results) >= 3
  /\ queries[1].last.in = False

(***************************************************************************)
(* The claims about transformers and aliases.                              *)
(***************************************************************************)
Count(list, x) == Cardinality({k \in DOMAIN list : list[k] = x})

\* C7: Dagoba.T holds every transformer that was registered exactly once, in
\* descending order of priority.
C7_TransformersOnceSorted ==
  /\ \A k \in DOMAIN registered : Count(T, registered[k]) = Count(registered, registered[k])
  /\ \A j, k \in DOMAIN T : j < k => T[j].priority >= T[k].priority

\* the program of q has a step whose name addAlias registered
HasAliasStep(q) ==
  \E k \in DOMAIN q.program :
    /\ q.program[k].name \in DOMAIN Pipetypes
    /\ Pipetypes[q.program[k].name] = "noop"

\* C8: a query with alias steps yields what the query with the steps
\* rewritten to the target, defaults filled in, yields: once it runs, it
\* comes to stop with the results of the reference query.
C8_AliasSameResults ==
  (queries[1].status = "running")
    ~> (Stopped(queries[1]) /\ queries[1].results = queries[2].results)

\* C9: a run whose program still has a step of an alias name halts.
C9_AliasStepHalts ==
  (queries[1].status = "running" /\ HasAliasStep(queries[1]))
    ~> (queries[1].status = "halted")

(***************************************************************************)
(* The claims about traversals.                                            *)
(***************************************************************************)
NoRepeat(list) == \A m, n \in DOMAIN list : m # n => list[m] # list[n]

\* C11: within one execution a unique position never returns two gremlins
\* whose vertices have the same id; called with a gremlin whose vertex id it
\* has returned before, it returns 'pull'.
C11_UniqueNoRepeat ==
  /\ [](\A i \in Queries : \A k \in DOMAIN queries[i].emitted :
          queries[i].program[k].name = "unique" => NoRepeat(queries[i].emitted[k]))
  /\ [][\A i \in Queries :
          LET q == queries[i]
          IN  (/\ q.status = "running"
               /\ queries'[i] # q
               /\ q.program[q.pc + 1].name = "unique"
               /\ Truthy(q.maybeGremlin)
               /\ graph.V[q.maybeGremlin.vertex]._id \in Range(q.emitted[q.pc + 1]))
                => queries'[i].last.out = Pull]_vars

\* v().out().unique() halted: out returned more gremlins than unique passed on
C11_Witness ==
  LET q == queries[1]
  IN  /\ q.status = "halted"
      /\ Len(q.program) = 3
      /\ q.program[2].name = "out"
      /\ q.program[3].name = "unique"
      /\ q.passed[3] >= 2
      /\ q.passed[2] > q.passed[3]

\* query 1 is v().property("name") on the store of the scenarios, and stopped
ScenarioB ==
  /\ graph = ScenarioStore
  /\ queries[1].program = <<Step("vertex", <<>>), Step("property", <<Str("name")>>)>>
  /\ Stopped(queries[1])

\* C12 as stated: on the store of vertices 1 (name "a") and 2 (name "b"),
\* inserted in that order, with the edge 1 -knows-> 2, v().property("name")
\* yields exactly the two values "a" then "b".
C12_PropertyNamesInOrder ==
  ScenarioB => queries[1].results = <<Str("a"), Str("b")>>

\* C12 amended: the same query yields exactly the two projected values, not
\* vertices, "b" then "a": the vertex step pops its candidates from the end
\* of the list, the reverse of the insertion order.
C12_PropertyNamesLifo ==
  ScenarioB => /\ queries[1].status = "halted"
               /\ queries[1].results = <<Str("b"), Str("a")>>

\* the query of the scenario halted after two results
C12_Witness ==
  /\ ScenarioB
  /\ queries[1].status = "halted"
  /\ Len(queries[1].results) = 2
  /\ queries[1].passed = <<2, 2>>

\* the program of q is v(ids).as(L).out(f).back(L)
AsOutBack(q) ==
  /\ Len(q.program) = 4
  /\ q.program[2].name = "as"
  /\ q.program[3].name = "out"
  /\ q.program[4].name = "back"
  /\ q.program[4].args = q.program[2].args

\* the out-edges of the vertex object h that the filter f lets through
MatchingOutEdges(h, f) == {k \in DOMAIN graph.V[h]._out : filterEdges(graph, f, graph.V[h]._out[k])}

\* C13: v(ids).as(L).out(f).back(L) halts having yielded each seed vertex
\* once for each of its out-edges that f lets through, and nothing else; a
\* back called with a gremlin that has no checkpoint under its label returns
\* 'pull'.
C13_BackReturnsSeed ==
  \A i \in Queries :
    LET q == queries[i]
        seeds == findVertices(graph, q.program[1].args)
    IN  /\ (Stopped(q) /\ AsOutBack(q))
              => /\ q.status = "halted"
                 /\ \A k \in DOMAIN q.results : q.results[k].t = "vertex"
                 /\ \A h \in DOMAIN graph.V :
                      Count(q.results, VertexRef(h))
                        = Count(seeds, h)
                            * Cardinality(MatchingOutEdges(h, Arg(q.program[3].args, 0)))
        /\ (/\ q.last.pos >= 0
             /\ LastStep(q).name = "back"
             /\ Truthy(q.last.in)
             /\ q.heap[q.last.in.state][Key(Arg(LastStep(q).args, 0))] = 0)
              => q.last.out = Pull

\* v().as("a").out("knows").back("a") halted on the store with a branch: vertex
\* 1 was yielded twice and vertex 3 once
C13_Witness ==
  LET q == queries[1]
  IN  /\ q.status = "halted"
      /\ AsOutBack(q)
      /\ q.program[1].args = <<>>
      /\ q.program[3].args = <<Str("knows")>>
      /\ Len(q.results) = 3
      /\ Count(q.results, VertexRef(1)) = 2

(***************************************************************************)
(* The claims about executions of query objects.                           *)
(***************************************************************************)
\* C14: the state objects of a query are kept from one execution to the
\* next: when v().take(1) is run to its end again on the same query object,
\* the execution yields no vertex that the execution before it yielded (it
\* yields another vertex, or nothing).
C14_RerunDiffers ==
  \A i \in Queries :
    LET q == queries[i]
    IN  (/\ q.runs >= 2
         /\ Stopped(q)
         /\ q.program = <<Step("vertex", <<>>), Step("take", <<Num(1)>>)>>)
          => /\ q.status = "halted"
             /\ Range(q.results) \cap Range(q.previous) = {}
             /\ Len(q.results) <= 1

\* the second execution of v().take(1) halted with one vertex, another than
\* the vertex of the first execution
C14_Witness ==
  LET q == queries[1]
  IN  /\ q.runs = 2
      /\ q.status = "halted"
      /\ q.program = <<Step("vertex", <<>>), Step("take", <<Num(1)>>)>>
      /\ Len(q.previous) = 1
      /\ Len(q.results) = 1
      /\ q.results # q.previous

\* the execution of a new query object with the program of q, with no other
\* query running
Alone(q) == RunToEnd(graph, Pipetypes, StartRun(T, [Query EXCEPT !.program = q.program]), MaxCycles)

VertexContent(G) ==
  {<<G.vertices[i].key, G.V[G.vertices[i].val]._id, G.V[G.vertices[i].val].name>> :
     i \in DOMAIN G.vertices}

\* the edges of the edge map: key (from, to, label), endpoint ids and properties
EdgeContent(G) ==
  {<<G.edges[i].key, G.V[G.E[G.edges[i].val]._out]._id,
     G.V[G.E[G.edges[i].val]._in]._id, G.E[G.edges[i].val]._label>> :
     i \in DOMAIN G.edges}

\* C16: the store rebuilt from the snapshot of a store has the vertex ids and
\* properties, and the (from, to, label) edge keys and properties, of that
\* store.
C16_SnapshotRoundTrip ==
  [][ret'.op = "fromString"
       => /\ VertexContent(graph') = VertexContent(graph)
          /\ EdgeContent(graph') = EdgeContent(graph)]_vars

\* a store with two vertices or more and two edges was rebuilt from its
\* snapshot
C16_Witness ==
  /\ ret.op = "fromString"
  /\ graph.autoid = 1
  /\ Len(graph.vertices) >= 2
  /\ Len(graph.edges) = 2

(***************************************************************************)
(* The stages as list functions.  A traverser is a vertex, the checkpoints *)
(* made on its way and the value a projection gave it; a stage maps the    *)
(* list of the traversers that reach it to the list of those that leave    *)
(* it.  A list is in the order the engine pops it: last first.             *)
(***************************************************************************)
Reverse(list) == [i \in DOMAIN list |-> list[Len(list) + 1 - i]]

Traverser(vertex, checkpoints, result) ==
  [vertex |-> vertex, as |-> checkpoints, result |-> result]

\* what one traverser gives rise to at a stage that looks at one traverser
\* at a time
StageOutputs(G, step, t) ==
  LET label == Key(Arg(step.args, 0))
      Keep(e) == filterEdges(G, Arg(step.args, 0), e)
      outs == Reverse(SelectSeq(G.V[t.vertex]._out, Keep))
      ins == Reverse(SelectSeq(G.V[t.vertex]._in, Keep))
      value == Property(G, t.vertex, Arg(step.args, 0))
  IN  CASE step.name = "out" ->
             [i \in DOMAIN outs |-> Traverser(G.E[outs[i]]._in, t.as, Undefined)]
        [] step.name = "in" ->
             [i \in DOMAIN ins |-> Traverser(G.E[ins[i]]._out, t.as, Undefined)]
        [] step.name = "filter" ->
             IF Arg(step.args, 0).t = "function" /\ ~Predicate(G, Arg(step.args, 0), t.vertex)
               THEN <<>> ELSE <<t>>
        [] step.name = "property" ->
             IF value = Undefined THEN <<>> ELSE <<[t EXCEPT !.result = value]>>
        [] step.name = "as" -> <<[t EXCEPT !.as[label] = t.vertex]>>
        [] step.name = "back" ->
             IF t.as[label] = 0 THEN <<>> ELSE <<Traverser(t.as[label], t.as, Undefined)>>
        [] step.name = "except" -> IF t.vertex = t.as[label] THEN <<>> ELSE <<t>>
        [] OTHER -> <<t>>

RECURSIVE FlatMapStage(_, _, _)
FlatMapStage(G, step, list) ==
  IF list = <<>> THEN <<>>
  ELSE StageOutputs(G, step, Head(list)) \o FlatMapStage(G, step, Tail(list))

\* unique as a list function: the first traverser of each vertex id
RECURSIVE UniqueList(_, _, _)
UniqueList(G, list, seen) ==
  IF list = <<>> THEN <<>>
  ELSE IF G.V[Head(list).vertex]._id \in seen THEN UniqueList(G, Tail(list), seen)
  ELSE <<Head(list)>> \o UniqueList(G, Tail(list), seen \cup {G.V[Head(list).vertex]._id})

RECURSIVE Compose(_, _, _)
Compose(G, steps, list) ==
  IF steps = <<>> THEN list
  ELSE Compose(G, Tail(steps),
               IF Head(steps).name = "unique" THEN UniqueList(G, list, {})
               ELSE FlatMapStage(G, Head(steps), list))

\* the results of a program of a vertex step and traversal steps
ListResults(G, program) ==
  LET seeds == Reverse(findVertices(G, program[1].args))
      start == [i \in DOMAIN seeds |-> Traverser(seeds[i], EmptyMap, Undefined)]
      end == Compose(G, Tail(program), start)
  IN  [i \in DOMAIN end |->
         IF end[i].result # Undefined THEN end[i].result ELSE VertexRef(end[i].vertex)]

TraversalStages == {"out", "in", "filter", "property", "unique", "as", "back", "except"}

IsTraversal(program) ==
  /\ Len(program) >= 1
  /\ program[1].name = "vertex"
  /\ \A k \in 2..Len(program) : program[k].name \in TraversalStages

SameMultiset(list1, list2) ==
  \A x \in Range(list1) \cup Range(list2) : Count(list1, x) = Count(list2, x)

\* C17: the run of a program of a vertex step and out, in, filter, property,
\* unique, as, back and except steps halts having yielded the multiset of
\* results that the composition of the stages as list functions gives: no
\* candidate is lost and none is yielded twice.  v(1).out("knows") on the
\* store of the scenarios yields the one result vertex 2.
C17_SchedulerAsListFunctions ==
  LET q == queries[1]
  IN  /\ (Stopped(q) /\ IsTraversal(q.program))
            => /\ q.status = "halted"
               /\ SameMultiset(q.results, ListResults(graph, q.program))
      /\ (/\ Stopped(q)
           /\ graph = ScenarioStore
           /\ q.program = <<Step("vertex", <<Num(1)>>), Step("out", <<Str("knows")>>)>>)
            => q.results = <<VertexRef(2)>>

(***************************************************************************)
(* The claims about the vertex step and the cursors of Q.run.              *)
(***************************************************************************)
\* the vertices of the vertex index for the ids that have one, in the order of
\* the ids
ExistingVertices(ids) ==
  LET Exists(id) == id.t = "number" /\ MapHas(graph.vertexIndex, id.n)
      found == SelectSeq(ids, Exists)
  IN  [k \in DOMAIN found |-> VertexRef(MapGet(graph.vertexIndex, found[k].n))]

\* C18: a query that is v(id1, ..., idk) alone halts having yielded the
\* vertices of the ids that exist, the missing ids skipped, in the reverse of
\* the order of the ids; so does every new query over the same store.
C18_VertexIdsReversed ==
  \A i \in Queries :
    LET q == queries[i]
    IN  (/\ Stopped(q)
         /\ Len(q.program) = 1
         /\ q.program[1].name = "vertex"
         /\ q.program[1].args # <<>>)
          => /\ q.status = "halted"
             /\ q.results = Reverse(ExistingVertices(q.program[1].args))

\* v(2, 7, 1) halted: vertex 1, then vertex 2, and nothing for the id 7
C18_Witness ==
  LET q == queries[1]
  IN  /\ q.status = "halted"
      /\ q.program = <<Step("vertex", <<Num(2), Num(7), Num(1)>>)>>
      /\ q.results = <<VertexRef(1), VertexRef(2)>>

\* C19: whenever a stage is about to be called, done < pc <= max; in a round
\* of the loop the stage called is the one at pc, a position above done,
\* done does not decrease, and a result is yielded only when pc was at max
\* and the stage returned a gremlin, whose result or vertex it is.
C19_CursorInvariant ==
  /\ [](\A i \in Queries :
          queries[i].status = "running"
            => (queries[i].done < queries[i].pc /\ queries[i].pc <= queries[i].max))
  /\ [][\A i \in Queries :
          (queries[i].status = "running" /\ queries'[i] # queries[i])
            => /\ queries'[i].done >= queries[i].done
               /\ queries'[i].last.pos = queries[i].pc
               /\ queries'[i].last.pos > queries[i].done
               /\ queries'[i].results # queries[i].results
                    => /\ queries[i].pc = queries[i].max
                       /\ Truthy(queries'[i].last.out)
                       /\ queries'[i].results
                            = Append(queries[i].results, Yielded(queries'[i].last.out))]_vars

\* a running query of three steps or more that has yielded a result: its
\* first two positions are settled and the stage at pc, the next one, is
\* about to be called
C19_Witness ==
  LET q == queries[1]
  IN  /\ q.status = "running"
      /\ q.max >= 2
      /\ q.done = 1
      /\ q.pc = 2
      /\ Len(q.results) >= 1

====
